---- MODULE Spec2Model ----
(***************************************************************************)
(* A model of base.h: the chunked arena allocator (ArenaCreate,            *)
(* ArenaAllocAligned, ArenaAllocChars, ArenaAlloc, ArenaReset, ArenaFree)  *)
(* the generic vector macros (VecPush, VecPop, VecShift, VecUnshift,       *)
(* VecInsert, VecAt, VecFree) and the string functions (StrNew,            *)
(* StrNewSize, StrConcat, StrSplit, StrSlice, StrTrim).                    *)
(***************************************************************************)
EXTENDS Integers, Sequences, FiniteSets, TLC

(***************************************************************************)
(* Bounds of the model.                                                    *)
(***************************************************************************)
\* allocation calls in one life of an arena
MaxAllocs == 3
\* ArenaReset calls in one life of an arena
MaxResets == 1
\* stores the caller makes into returned regions in one life of an arena
MaxWrites == 1
\* allocation calls in the chunk-size-64 scenario
MaxCharAllocs == 6
\* the length up to which every vector macro is tried
MaxLen == 3
\* the length a run of VecPush calls alone is followed to
MaxPushes == 130
\* bytes of an operand of StrConcat, and StrConcat calls in one run
MaxConcatLen == 2
MaxConcats == 2
\* bytes of a sliced String built from Letters
MaxSliceLen == 3
\* bytes of a split String built from LetterComma
MaxSplitLen == 4
\* bytes of a text handed to StrNew, and the largest limit SetMaxStrSize sets
MaxNewLen == 3
MaxLimit == 2
\* bytes of a String split into lines
MaxLinesLen == 4
\* bytes of a trimmed String, and StrTrim calls in one run
MaxTrimLen == 6
MaxTrims == 2

\* the null pointer
NULL == 0

\* byte values: 0 is the zero byte and 1 a non-zero byte the caller stored;
\* Indet is a byte of a block malloc returned that nothing has written yet:
\* its value is indeterminate, so it is never known to be 0
Indet == 2

\* chunk sizes, request sizes and alignments the general arena runs draw from
ChunkSizes == {4}
Sizes == {1, 3, 5}
Aligns == {1, 2}
\* request sizes of the ArenaAlloc calls
AllocSizes == {3}

\* the chunk size and the request sizes of the chunk-size-64 scenario
CharChunkSizes == {64}
CharCounts == {16, 32}

\* the chunk size, sizes and alignments of the alignment scenario
AlignChunkSizes == {8}
AlignSizes == {1, 3}
AlignAligns == {1, 2, 4}

\* the element values the vector runs draw from
VecValues == {10, 11}
FillValues == {12}

\* 2 * sizeof(void *) on a 64-bit build
DEFAULT_ALIGNMENT == 16

\* static size_t maxStringSize = 10000
maxStringSize == 10000

\* the chunk size of the arenas strings are built in
StrChunkSizes == {8}

\* character codes: 'a', 'b'
LetterA == {97}
LetterB == {98}
Letters == {97, 98}

\* 'a', ','
LetterComma == {97, 44}
Comma == {44}

\* 'a', ' '
LetterSpace == {97, 32}

\* 'a', '\n', '\r'
LetterBreaks == {97, 10, 13}

\* "a,b,,c"
ABEmptyC == <<97, 44, 98, 44, 44, 99>>

\* "hello world"
HelloWorld == <<104, 101, 108, 108, 111, 32, 119, 111, 114, 108, 100>>

VARIABLES
  heap,        \* the __ArenaChunk blocks ever malloc'ed, by block id
  arena,       \* the Arena control block: current, offset, root, chunkSize
  frees,       \* per chunk, the number of free() calls made on it
  arenaFrees,  \* the number of free() calls made on the control block
  ret,         \* the region the last allocation returned: chunk, pos, size
  lastOp,      \* the last call made on the arena
  log,         \* the allocation calls since ArenaCreate, with their results
  resets,      \* the number of ArenaReset calls since ArenaCreate
  writes,      \* the number of stores the caller made into returned regions
  vec,         \* the vector struct: data, length, capacity
  vbuf,        \* the slots of the block vec.data points to, <<>> without one
  vlive,       \* whether a block obtained from Realloc is still allocated
  vstatus,     \* "ok", or how the process ended: "abort" (assert), "segv"
  vcall,       \* the last macro used on the vector, with its arguments
  vret,        \* what the last macro evaluated to
  vgrew,       \* whether the last macro called Realloc
  pushRun,     \* the number of calls so far if all were VecPush, else -1
  sa,          \* the first String the program holds: length, data
  sb,          \* the second String the program holds
  sout,        \* the String the last string function returned
  stoks,       \* the StringVector the last split returned: vec, buf
  scall,       \* the last string function called, with its arguments
  sstatus,     \* "ok", "abort" (assert), or "overflow" (store past a chunk)
  smade,       \* the Strings the last call built, each with its allocation
  sins,        \* the number of Strings built from text so far
  sops,        \* the number of string functions applied to them so far
  smax,        \* the value of the global maxStringSize
  stext        \* the char * argument of the last StrNew or StrNewSize call

arenaVars == <<heap, arena, frees, arenaFrees, ret, lastOp, log, resets, writes>>

vecVars == <<vec, vbuf, vlive, vstatus, vcall, vret, vgrew, pushRun>>

strVars == <<sa, sb, sout, stoks, scall, sstatus, smade, sins, sops, smax, stext>>

vars == <<heap, arena, frees, arenaFrees, ret, lastOp, log, resets, writes,
          vec, vbuf, vlive, vstatus, vcall, vret, vgrew, pushRun,
          sa, sb, sout, stoks, scall, sstatus, smade, sins, sops, smax, stext>>

(***************************************************************************)
(* Helpers.                                                                *)
(***************************************************************************)
\* x & y on naturals
RECURSIVE BitAnd(_, _)
BitAnd(x, y) ==
  IF x = 0 \/ y = 0 THEN 0
  ELSE (IF x % 2 = 1 /\ y % 2 = 1 THEN 1 ELSE 0) + 2 * BitAnd(x \div 2, y \div 2)

\* memset(buffer + pos, 0, size): bytes pos .. pos+size-1 (0-based) become 0
Memset0(buffer, pos, size) ==
  [i \in DOMAIN buffer |-> IF pos < i /\ i <= pos + size THEN 0 ELSE buffer[i]]

\* the caller storing non-zero data over the region it was handed
Fill1(buffer, pos, size) ==
  [i \in DOMAIN buffer |-> IF pos < i /\ i <= pos + size THEN 1 ELSE buffer[i]]

\* Malloc(sizeof(__ArenaChunk) + bytes) followed by the two field stores:
\* cap and next are set, the buffer keeps whatever the block held
NewChunk(bytes) ==
  [next |-> NULL, cap |-> bytes, buffer |-> [i \in 1..bytes |-> Indet]]

(***************************************************************************)
(* __ArenaNextChunk                                                        *)
(***************************************************************************)
\* the while loop: advance current along next links, stop at the first chunk
\* whose cap is greater than bytes
RECURSIVE ArenaWalk(_, _, _, _)
ArenaWalk(h, cur, next, bytes) ==
  IF next = NULL THEN [found |-> FALSE, current |-> cur]
  ELSE IF h[next].cap > bytes THEN [found |-> TRUE, current |-> next]
  ELSE ArenaWalk(h, next, h[next].next, bytes)

\* link a fresh chunk after the chunk the walk ended on
LinkChunk(h, cur, bytes) ==
  LET id == Len(h) + 1
      h1 == Append(h, NewChunk(bytes))
  IN IF cur # NULL THEN [h1 EXCEPT ![cur].next = id] ELSE h1

\* a variant that never walks: the fresh chunk is linked right after current
ArenaNextChunkNoWalk(a, h, bytes) ==
  [arena |-> [a EXCEPT !.current = Len(h) + 1],
   heap |-> LinkChunk(h, a.current, bytes)]

ArenaNextChunk(a, h, bytes) ==
  LET first == IF a.current # NULL THEN h[a.current].next ELSE NULL
      w == ArenaWalk(h, a.current, first, bytes)
  IN IF w.found
       THEN [arena |-> [a EXCEPT !.current = w.current], heap |-> h]
       ELSE [arena |-> [a EXCEPT !.current = Len(h) + 1],
             heap |-> LinkChunk(h, w.current, bytes)]

(***************************************************************************)
(* ArenaAllocAligned                                                       *)
(***************************************************************************)
\* intptr_t aligned = tail ? offset + al - offset : offset
AlignForward(offset, al) ==
  LET tail == BitAnd(offset, al - 1)
  IN IF tail # 0 THEN offset + al - offset ELSE offset

\* the bytes asked of __ArenaNextChunk
ChunkBytes(a, size) == IF size > a.chunkSize THEN size ELSE a.chunkSize

\* a variant without the memset
ZeroFillSkipped(h, chunk, pos, size) == h

\* if (size) memset(result, 0, size)
ZeroFill(h, chunk, pos, size) ==
  IF size # 0
    THEN [h EXCEPT ![chunk].buffer = Memset0(h[chunk].buffer, pos, size)]
    ELSE h

\* a variant that also leaves a chunk the request would fill exactly
ExceedsOrFills(offset, cap) == offset >= cap

\* if (arena->offset > arena->current->cap)
Exceeds(offset, cap) == offset > cap

ArenaAllocAligned(a, h, size, al) ==
  LET aligned == AlignForward(a.offset, al)
      a1 == [a EXCEPT !.offset = aligned + size]
  IN IF Exceeds(a1.offset, h[a1.current].cap)
       THEN LET n == ArenaNextChunk(a1, h, ChunkBytes(a1, size))
            IN [arena |-> n.arena,
                heap |-> ZeroFill(n.heap, n.arena.current, 0, size),
                chunk |-> n.arena.current, pos |-> 0]
       ELSE [arena |-> a1,
             heap |-> ZeroFill(h, a1.current, aligned, size),
             chunk |-> a1.current, pos |-> aligned]

(***************************************************************************)
(* ArenaCreate, ArenaReset, ArenaFree                                      *)
(***************************************************************************)
ArenaCreate(chunkSize) ==
  LET res == [current |-> NULL, offset |-> 0, root |-> NULL, chunkSize |-> chunkSize]
      n == ArenaNextChunk(res, <<>>, chunkSize)
  IN [arena |-> [n.arena EXCEPT !.root = n.arena.current], heap |-> n.heap]

\* a variant that rewinds the offset and leaves current where it is
ArenaResetOffsetOnly(a) == [a EXCEPT !.offset = 0]

ArenaReset(a) == [a EXCEPT !.current = a.root, !.offset = 0]

\* the chunks ArenaFree's loop visits, in order
RECURSIVE FreeWalk(_, _)
FreeWalk(h, chunk) ==
  IF chunk = NULL THEN <<>> ELSE <<chunk>> \o FreeWalk(h, h[chunk].next)

\* the number of times c occurs in the sequence s
Occurrences(s, c) == Cardinality({i \in DOMAIN s : s[i] = c})

(***************************************************************************)
(* The vector macros.  A vector is the struct {data, length, capacity};    *)
(* the block data points to is kept beside it as a sequence of slots       *)
(* (slot i of the C code is element i + 1 of the sequence).                *)
(***************************************************************************)
\* a non-null data pointer
BLOCK == 1

\* Vector vector = {0}
ZeroVec == [data |-> NULL, length |-> 0, capacity |-> 0]

\* data[idx] = value
Store(buf, idx, value) ==
  [i \in DOMAIN buf |-> IF i = idx + 1 THEN value ELSE buf[i]]

\* memmove(&data[dst], &data[src], n * sizeof(*data))
Memmove(buf, dst, src, n) ==
  [i \in DOMAIN buf |->
     IF dst + 1 <= i /\ i <= dst + n /\ (i - dst + src) \in DOMAIN buf
       THEN buf[i - dst + src] ELSE buf[i]]

\* Realloc(data, capacity * sizeof(*data)): the old slots are kept, the new
\* ones hold indeterminate values
Realloc(buf, capacity) ==
  [i \in 1..capacity |-> IF i \in DOMAIN buf THEN buf[i] ELSE Indet]

\* a variant of the growth test that misses the full vector
NeedsGrowStrict(length, capacity) == length > capacity

\* if (vector.length >= vector.capacity)
NeedsGrow(length, capacity) == length >= capacity

\* a variant that forgets to double
NextCapacityKept(capacity, initial) == IF capacity = 0 THEN initial ELSE capacity

\* if (vector.capacity == 0) vector.capacity = initial; else vector.capacity *= 2;
NextCapacity(capacity, initial) == IF capacity = 0 THEN initial ELSE capacity * 2

\* the growth block shared by VecPush, VecUnshift and VecInsert
Grow(v, b, live, initial) ==
  IF NeedsGrow(v.length, v.capacity)
    THEN LET c == NextCapacity(v.capacity, initial)
         IN [vec |-> [v EXCEPT !.capacity = c, !.data = BLOCK],
             buf |-> Realloc(b, c), live |-> TRUE, grew |-> TRUE]
    ELSE [vec |-> v, buf |-> b, live |-> live, grew |-> FALSE]

NoRet == [kind |-> "none", idx |-> 0, val |-> 0]

\* a failed assert: the process aborts with the vector as it was
Abort(v, b, live) ==
  [vec |-> v, buf |-> b, live |-> live, status |-> "abort", ret |-> NoRet,
   grew |-> FALSE]

\* a load or store through a null data pointer
Segv(v, b, live, grew) ==
  [vec |-> v, buf |-> b, live |-> live, status |-> "segv", ret |-> NoRet,
   grew |-> grew]

VecPush(v, b, live, value) ==
  IF ~(v.length <= v.capacity) THEN Abort(v, b, live)
  ELSE LET g == Grow(v, b, live, 128)
       IN IF g.vec.data = NULL THEN Segv(g.vec, g.buf, g.live, g.grew)
          ELSE [vec |-> [g.vec EXCEPT !.length = @ + 1],
                buf |-> Store(g.buf, g.vec.length, value),
                live |-> g.live, status |-> "ok",
                ret |-> [kind |-> "slot", idx |-> (g.vec.length + 1) - 1, val |-> 0],
                grew |-> g.grew]

VecPop(v, b, live) ==
  IF ~(v.length > 0) THEN Abort(v, b, live)
  ELSE IF v.data = NULL THEN Segv(v, b, live, FALSE)
  ELSE [vec |-> [v EXCEPT !.length = @ - 1], buf |-> b, live |-> live,
        status |-> "ok",
        ret |-> [kind |-> "local", idx |-> 0, val |-> b[(v.length - 1) + 1]],
        grew |-> FALSE]

VecShift(v, b, live) ==
  IF ~(v.length # 0) THEN Abort(v, b, live)
  ELSE IF v.data = NULL THEN Segv(v, b, live, FALSE)
  ELSE [vec |-> [v EXCEPT !.length = @ - 1],
        buf |-> Memmove(b, 0, 1, v.length - 1), live |-> live,
        status |-> "ok",
        ret |-> [kind |-> "local", idx |-> 0, val |-> b[0 + 1]],
        grew |-> FALSE]

VecUnshift(v, b, live, value) ==
  LET g == Grow(v, b, live, 2)
  IN IF g.vec.data = NULL THEN Segv(g.vec, g.buf, g.live, g.grew)
     ELSE LET moved == IF g.vec.length > 0
                         THEN Memmove(g.buf, 1, 0, g.vec.length) ELSE g.buf
          IN [vec |-> [g.vec EXCEPT !.length = @ + 1],
              buf |-> Store(moved, 0, value), live |-> g.live,
              status |-> "ok",
              ret |-> [kind |-> "arg", idx |-> 0, val |-> value],
              grew |-> g.grew]

VecInsert(v, b, live, value, index) ==
  IF ~(index <= v.length) THEN Abort(v, b, live)
  ELSE LET g == Grow(v, b, live, 2)
       IN IF g.vec.data = NULL THEN Segv(g.vec, g.buf, g.live, g.grew)
          ELSE [vec |-> [g.vec EXCEPT !.length = @ + 1],
                buf |-> Store(Memmove(g.buf, index + 1, index, g.vec.length - index),
                              index, value),
                live |-> g.live, status |-> "ok",
                ret |-> [kind |-> "arg", idx |-> 0, val |-> value],
                grew |-> g.grew]

\* VecAt with the lower bound of its assertion dropped
VecAtUpperOnly(v, b, live, index) ==
  IF ~(index < v.length) THEN Abort(v, b, live)
  ELSE [vec |-> v, buf |-> b, live |-> live, status |-> "ok",
        ret |-> [kind |-> "slot", idx |-> index, val |-> 0], grew |-> FALSE]

\* assert(index >= 0 && index < length); &data[index]: no element is touched
VecAt(v, b, live, index) ==
  IF ~(index >= 0 /\ index < v.length) THEN Abort(v, b, live)
  ELSE [vec |-> v, buf |-> b, live |-> live, status |-> "ok",
        ret |-> [kind |-> "slot", idx |-> index, val |-> 0], grew |-> FALSE]

\* Free(vector.data); vector.data = NULL; length and capacity are not touched
VecFree(v, b, live) ==
  IF ~(v.data # NULL) THEN Abort(v, b, live)
  ELSE [vec |-> [v EXCEPT !.data = NULL], buf |-> <<>>, live |-> FALSE,
        status |-> "ok", ret |-> NoRet, grew |-> FALSE]

(***************************************************************************)
(* Strings.  A String is the struct {length, data}; data is a pointer into *)
(* a chunk's buffer, [chunk, pos], or null.  A byte is its character code. *)
(***************************************************************************)
NullPtr == [chunk |-> NULL, pos |-> 0]

\* (String){0, NULL}
StrNull == [length |-> 0, data |-> NullPtr]

\* a char * argument: a C string of the caller's (its bytes and their
\* terminator), or a pointer into a chunk
Text(bytes) == [kind |-> "text", bytes |-> bytes \o <<0>>, ptr |-> NullPtr]

At(p) == [kind |-> "ptr", bytes |-> <<>>, ptr |-> p]

\* str == NULL
IsNullText(str) == str.kind = "ptr" /\ str.ptr.chunk = NULL

\* a variant that leaves the pointer where it is
PlusNothing(p, n) == p

\* pointer + n
Plus(p, n) == [p EXCEPT !.pos = @ + n]

\* str[i]; a read outside the object finds anything
SrcByte(h, str, i) ==
  IF str.kind = "text"
    THEN IF i + 1 \in DOMAIN str.bytes THEN str.bytes[i + 1] ELSE Indet
    ELSE LET b == h[str.ptr.chunk].buffer
             k == str.ptr.pos + i + 1
         IN IF k \in DOMAIN b THEN b[k] ELSE Indet

\* memcpy(dest, src, count), every source byte read before it is overwritten
Memcpy(h, dest, src, count) ==
  LET b == h[dest.chunk].buffer
  IN [h EXCEPT ![dest.chunk].buffer =
        [k \in DOMAIN b |->
           IF dest.pos < k /\ k <= dest.pos + count
             THEN SrcByte(h, src, k - dest.pos - 1) ELSE b[k]]]

memcpy_s(h, dest, destSize, src, count) ==
  IF dest.chunk = NULL THEN h
  ELSE IF IsNullText(src) \/ destSize < count
    THEN [h EXCEPT ![dest.chunk].buffer = Memset0(h[dest.chunk].buffer, dest.pos, destSize)]
  ELSE Memcpy(h, dest, src, count)

\* a variant that ignores maxSize
RECURSIVE strLengthUnbounded(_, _, _, _)
strLengthUnbounded(h, str, len, maxSize) ==
  IF IsNullText(str) THEN 0
  ELSE IF SrcByte(h, str, len) # 0
    THEN strLengthUnbounded(h, str, len + 1, maxSize) ELSE len

RECURSIVE strLength(_, _, _, _)
strLength(h, str, len, maxSize) ==
  IF IsNullText(str) THEN 0
  ELSE IF len < maxSize /\ SrcByte(h, str, len) # 0
    THEN strLength(h, str, len + 1, maxSize) ELSE len

\* str[len] = '\0'; a store past the chunk's buffer is not kept
addNullTerminator(h, str, len) ==
  [h EXCEPT ![str.chunk].buffer = Store(h[str.chunk].buffer, str.pos + len, 0)]

\* whether str[i] lies past the end of the chunk's buffer
PastChunk(h, str, i) == str.pos + i >= h[str.chunk].cap

StrIsNull(str) == str.data.chunk = NULL

\* maxStringSize = size
SetMaxStrSize(size) == size

ArenaAllocChars(a, h, count) == ArenaAllocAligned(a, h, count, 1)

\* what a function that builds one String leaves behind: the arena, the
\* String, the size of the allocation made for it and the number of leading
\* bytes of data the function stored to
Built(a, h, str, size, stores) ==
  [arena |-> a, heap |-> h, str |-> str,
   made |-> <<[str |-> str, size |-> size, stores |-> stores]>>,
   status |-> IF PastChunk(h, str.data, stores - 1) THEN "overflow" ELSE "ok"]

\* a failed assert: the process aborts, nothing is returned
StrAbort(a, h) ==
  [arena |-> a, heap |-> h, str |-> StrNull, made |-> <<>>, status |-> "abort"]

\* a load through a null pointer
StrSegv(a, h) ==
  [arena |-> a, heap |-> h, str |-> StrNull, made |-> <<>>, status |-> "segv"]

StrNewSize(a, h, str, len) ==
  LET memorySize == len + 1
      r == ArenaAllocChars(a, h, memorySize)
      allocatedString == [chunk |-> r.chunk, pos |-> r.pos]
      h1 == Memcpy(r.heap, allocatedString, str, memorySize)
      h2 == addNullTerminator(h1, allocatedString, len)
  IN IF IsNullText(str) THEN StrSegv(r.arena, r.heap)
     ELSE Built(r.arena, h2, [length |-> len, data |-> allocatedString],
                memorySize, memorySize)

StrNew(a, h, str, maxSize) ==
  LET len == strLength(h, str, 0, maxSize)
  IN IF len = 0
       THEN [arena |-> a, heap |-> h, str |-> StrNull, made |-> <<>>, status |-> "ok"]
       ELSE LET memorySize == len + 1
                r == ArenaAllocChars(a, h, memorySize)
                allocatedString == [chunk |-> r.chunk, pos |-> r.pos]
                h1 == Memcpy(r.heap, allocatedString, str, memorySize)
                h2 == addNullTerminator(h1, allocatedString, len)
            IN Built(r.arena, h2, [length |-> len, data |-> allocatedString],
                     memorySize, memorySize)

\* the two branches of StrConcat taken when an operand is null: a copy of
\* the other operand
ConcatCopy(a, h, other) ==
  LET len == other.length
      memorySize == len
      r == ArenaAllocChars(a, h, memorySize)
      allocatedString == [chunk |-> r.chunk, pos |-> r.pos]
      h1 == memcpy_s(r.heap, allocatedString, memorySize, At(other.data), other.length)
      h2 == addNullTerminator(h1, allocatedString, len)
  IN Built(r.arena, h2, [length |-> len, data |-> allocatedString],
           memorySize, len + 1)

StrConcat(a, h, string1, string2) ==
  IF StrIsNull(string1) THEN ConcatCopy(a, h, string2)
  ELSE IF StrIsNull(string2) THEN ConcatCopy(a, h, string1)
  ELSE LET len == string1.length + string2.length
           memorySize == len + 1
           r == ArenaAllocChars(a, h, memorySize)
           allocatedString == [chunk |-> r.chunk, pos |-> r.pos]
           h1 == memcpy_s(r.heap, allocatedString, memorySize,
                          At(string1.data), string1.length)
           h2 == memcpy_s(h1, Plus(allocatedString, string1.length), memorySize,
                          At(string2.data), string2.length)
           h3 == addNullTerminator(h2, allocatedString, len)
       IN Built(r.arena, h3, [length |-> len, data |-> allocatedString],
                memorySize, len + 1)

\* size_t, kept to 30 bits so that every value fits TLC's integers
SizeModulus == 1073741824

\* the conversion of an int argument to size_t
ToSizeT(x) == x % SizeModulus

\* a variant without the check of end against start
EndAnywhere(end, start) == TRUE

\* assert(end >= start)
EndNotBefore(end, start) == end >= start

\* start and end are size_t: the branch for a negative end is never taken
StrSlice(a, h, str, start, end) ==
  IF ~(start >= 0) THEN StrAbort(a, h)
  ELSE IF ~(start <= str.length) THEN StrAbort(a, h)
  ELSE LET end1 == IF end < 0 THEN (str.length + end) % SizeModulus ELSE end
       IN IF ~EndNotBefore(end1, start) THEN StrAbort(a, h)
          ELSE IF ~(end1 <= str.length) THEN StrAbort(a, h)
          ELSE LET len == end1 - start
               IN StrNewSize(a, h, At(Plus(str.data, start)), len)

(***************************************************************************)
(* StrSplit.  Positions are offsets from str->data; the StringVector is    *)
(* built with VecPush.                                                     *)
(***************************************************************************)
\* memcmp(search, delimiter->data, delimiter->length) == 0
Matches(h, str, delimiter, search) ==
  \A j \in 0..delimiter.length - 1 :
    SrcByte(h, At(str.data), search + j) = SrcByte(h, At(delimiter.data), j)

\* the for loop: the first search in curr .. end - delimiter->length that
\* matches, or -1 for match == NULL
FirstMatch(h, str, delimiter, curr) ==
  LET found == {k \in curr..str.length - delimiter.length :
                  Matches(h, str, delimiter, k)}
  IN IF found = {} THEN -1 ELSE CHOOSE k \in found : \A o \in found : k <= o

\* String currString = StrNewSize(arena, from, len); VecPush(result, currString)
PushToken(st, str, from, len) ==
  LET n == StrNewSize(st.arena, st.heap, At(Plus(str.data, from)), len)
      v == VecPush(st.toks.vec, st.toks.buf, TRUE, n.str)
  IN [arena |-> n.arena, heap |-> n.heap,
      toks |-> [vec |-> v.vec, buf |-> v.buf],
      made |-> st.made \o n.made, status |-> n.status]

\* the loop of the empty-delimiter branch, from index i
RECURSIVE SplitChars(_, _, _)
SplitChars(st, str, i) ==
  IF i < str.length THEN SplitChars(PushToken(st, str, i, 1), str, i + 1)
  ELSE st

\* curr = match + delimiter->length
ResumeAfter(match, delimiter) == match + delimiter.length

\* the while loop, from position curr
RECURSIVE SplitLoop(_, _, _, _)
SplitLoop(st, str, delimiter, curr) ==
  IF ~(curr < str.length) THEN st
  ELSE LET match == FirstMatch(st.heap, str, delimiter, curr)
       IN IF match = -1
            THEN PushToken(st, str, curr, str.length - curr)
            ELSE SplitLoop(PushToken(st, str, curr, match - curr), str, delimiter,
                           ResumeAfter(match, delimiter))

StrSplit(a, h, str, delimiter) ==
  LET st == [arena |-> a, heap |-> h, toks |-> [vec |-> ZeroVec, buf |-> <<>>],
             made |-> <<>>, status |-> "ok"]
  IN IF StrIsNull(str) \/ StrIsNull(delimiter) THEN [st EXCEPT !.status = "abort"]
     ELSE IF delimiter.length = 0 THEN SplitChars(st, str, 0)
     ELSE SplitLoop(st, str, delimiter, 0)

(***************************************************************************)
(* StrSplitNewLine.  Positions are offsets from str->data.                 *)
(***************************************************************************)
\* while (pos < end && *pos != '\n') pos++
RECURSIVE ScanLine(_, _, _)
ScanLine(h, str, pos) ==
  IF pos < str.length /\ SrcByte(h, At(str.data), pos) # 10
    THEN ScanLine(h, str, pos + 1) ELSE pos

\* a variant that keeps a carriage return before the line feed
LineLengthWithReturn(h, str, curr, pos) == pos - curr

\* size_t len = pos - curr; if (pos < end && pos > curr && *(pos - 1) == '\r') len--
LineLength(h, str, curr, pos) ==
  IF pos < str.length /\ pos > curr /\ SrcByte(h, At(str.data), pos - 1) = 13
    THEN (pos - curr) - 1 ELSE pos - curr

\* the outer while loop, from position curr
RECURSIVE LinesLoop(_, _, _)
LinesLoop(st, str, curr) ==
  IF ~(curr < str.length) THEN st
  ELSE LET pos == ScanLine(st.heap, str, curr)
           len == LineLength(st.heap, str, curr, pos)
           pushed == PushToken(st, str, curr, len)
       IN IF pos < str.length THEN LinesLoop(pushed, str, pos + 1) ELSE pushed

StrSplitNewLine(a, h, str) ==
  LET st == [arena |-> a, heap |-> h, toks |-> [vec |-> ZeroVec, buf |-> <<>>],
             made |-> <<>>, status |-> "ok"]
  IN IF StrIsNull(str) THEN [st EXCEPT !.status = "abort"]
     ELSE LinesLoop(st, str, 0)

(***************************************************************************)
(* StrTrim (in place).                                                     *)
(***************************************************************************)
\* ' ', '\n', '\t', '\r'
isSpace(character) == character \in {32, 10, 9, 13}

\* the indices i of the loop at which data[i] is not a space
NonSpaces(h, str) ==
  {i \in 0..str.length - 1 : ~isSpace(SrcByte(h, At(str.data), i))}

\* memcpy(dest, src, count) copying byte by byte from the last byte down
RECURSIVE MemcpyDown(_, _, _, _)
MemcpyDown(h, dest, src, count) ==
  IF count = 0 THEN h
  ELSE MemcpyDown([h EXCEPT ![dest.chunk].buffer =
                     Store(h[dest.chunk].buffer, dest.pos + count - 1,
                           SrcByte(h, src, count - 1))],
                  dest, src, count - 1)

\* memcpy on regions that overlap is undefined: the bytes arrive as if all
\* were read first, or as a copy from the last byte down leaves them
CopyOrders == {"up", "down"}

Trimmed(h, str, status) == [heap |-> h, str |-> str, status |-> status]

StrTrim(h, str, order) ==
  IF str.length = 0 THEN Trimmed(h, str, "ok")
  ELSE IF str.length = 1
    THEN IF isSpace(SrcByte(h, At(str.data), 0))
           THEN Trimmed(addNullTerminator(h, str.data, 0),
                        [str EXCEPT !.length = 0], "ok")
           ELSE Trimmed(h, str, "ok")
  ELSE LET found == NonSpaces(h, str)
       IN IF found = {}
            THEN Trimmed(addNullTerminator(h, str.data, 0),
                         [str EXCEPT !.length = 0], "ok")
            ELSE LET firstChar == CHOOSE i \in found : \A o \in found : i <= o
                     lastChar == CHOOSE i \in found : \A o \in found : i >= o
                     len == (lastChar - firstChar) + 1
                     src == At(Plus(str.data, firstChar))
                     h1 == IF order = "down" /\ ~(str.length < len)
                             THEN MemcpyDown(h, str.data, src, len)
                             ELSE memcpy_s(h, str.data, str.length, src, len)
                 IN Trimmed(addNullTerminator(h1, str.data, len),
                            [str EXCEPT !.length = len],
                            IF PastChunk(h, str.data, len) THEN "overflow" ELSE "ok")

(***************************************************************************)
(* The state the string functions work on.                                 *)
(***************************************************************************)
StrInit ==
  /\ sa = StrNull
  /\ sb = StrNull
  /\ sout = StrNull
  /\ stoks = [vec |-> ZeroVec, buf |-> <<>>]
  /\ scall = [op |-> "init", x |-> "null", y |-> "null", start |-> 0, end |-> 0]
  /\ sstatus = "ok"
  /\ smade = <<>>
  /\ sins = 0
  /\ sops = 0
  /\ smax = maxStringSize
  /\ stext = At(NullPtr)

(***************************************************************************)
(* The vector's state machine.                                             *)
(***************************************************************************)
VecInit ==
  /\ vec = ZeroVec
  /\ vbuf = <<>>
  /\ vlive = FALSE
  /\ vstatus = "ok"
  /\ vcall = [op |-> "init", value |-> 0, index |-> 0]
  /\ vret = NoRet
  /\ vgrew = FALSE
  /\ pushRun = 0

\* the state a macro leaves behind
VecResult(r, op, value, index) ==
  /\ vec' = r.vec
  /\ vbuf' = r.buf
  /\ vlive' = r.live
  /\ vstatus' = r.status
  /\ vret' = r.ret
  /\ vgrew' = r.grew
  /\ vcall' = [op |-> op, value |-> value, index |-> index]
  /\ pushRun' = IF op = "push" /\ pushRun >= 0 /\ r.status = "ok"
                  THEN pushRun + 1 ELSE -1
  /\ UNCHANGED arenaVars
  /\ UNCHANGED strVars

\* the values pushed: any of VecValues into a short vector, FillValues beyond
PushValues == IF vec.length < MaxLen THEN VecValues ELSE FillValues

\* a vector longer than MaxLen arises only from a run of pushes
VecPushStep ==
  /\ vstatus = "ok"
  /\ vec.length < MaxLen \/ (pushRun >= 0 /\ vec.length < MaxPushes)
  /\ \E value \in PushValues :
       VecResult(VecPush(vec, vbuf, vlive, value), "push", value, 0)

\* VecPop and VecShift evaluate to &value, where value is declared inside the
\* macro's statement expression: the object is dead once the macro has been
\* evaluated, so a read through the pointer finds the copy or anything else
DeadLocalRead(r) ==
  IF r.kind = "local" THEN {r, [r EXCEPT !.val = Indet]} ELSE {r}

VecPopStep ==
  /\ vstatus = "ok"
  /\ vec.length <= MaxLen
  /\ LET r == VecPop(vec, vbuf, vlive)
     IN \E seen \in DeadLocalRead(r.ret) :
          VecResult([r EXCEPT !.ret = seen], "pop", 0, 0)

VecShiftStep ==
  /\ vstatus = "ok"
  /\ vec.length <= MaxLen
  /\ LET r == VecShift(vec, vbuf, vlive)
     IN \E seen \in DeadLocalRead(r.ret) :
          VecResult([r EXCEPT !.ret = seen], "shift", 0, 0)

VecAtStep ==
  /\ vstatus = "ok"
  /\ vec.length <= MaxLen
  /\ \E index \in -1..vec.length + 1 :
       VecResult(VecAt(vec, vbuf, vlive, index), "at", 0, index)

VecUnshiftStep ==
  /\ vstatus = "ok"
  /\ vec.length < MaxLen
  /\ \E value \in VecValues :
       VecResult(VecUnshift(vec, vbuf, vlive, value), "unshift", value, 0)

VecInsertStep ==
  /\ vstatus = "ok"
  /\ vec.length < MaxLen
  /\ \E value \in VecValues, index \in 0..vec.length + 1 :
       VecResult(VecInsert(vec, vbuf, vlive, value, index), "insert", value, index)

VecFreeStep ==
  /\ vstatus = "ok"
  /\ vec.length <= MaxLen
  /\ VecResult(VecFree(vec, vbuf, vlive), "free", 0, 0)

(***************************************************************************)
(* The arena's state machine.                                              *)
(***************************************************************************)
NoRegion == [chunk |-> NULL, pos |-> 0, size |-> 0]

Live == arenaFrees = 0

ArenaInitWith(chunkSizes) ==
  \E cs \in chunkSizes :
    LET c == ArenaCreate(cs)
    IN /\ heap = c.heap
       /\ arena = c.arena
       /\ frees = [i \in DOMAIN c.heap |-> 0]
       /\ arenaFrees = 0
       /\ ret = NoRegion
       /\ lastOp = "create"
       /\ log = <<>>
       /\ resets = 0
       /\ writes = 0

\* one allocation call and what it leaves behind
AllocCall(size, al) ==
  LET r == ArenaAllocAligned(arena, heap, size, al)
  IN /\ arena' = r.arena
     /\ heap' = r.heap
     /\ frees' = [i \in DOMAIN r.heap |-> IF i \in DOMAIN frees THEN frees[i] ELSE 0]
     /\ ret' = [chunk |-> r.chunk, pos |-> r.pos, size |-> size]
     /\ lastOp' = "alloc"
     /\ log' = Append(log, [size |-> size, al |-> al, chunk |-> r.chunk,
                            pos |-> r.pos, cycle |-> resets])
     /\ UNCHANGED <<arenaFrees, resets, writes>>
     /\ UNCHANGED vecVars
     /\ UNCHANGED strVars

AllocAlignedStep(sizes, aligns, bound) ==
  /\ Live
  /\ Len(log) < bound
  /\ \E size \in sizes, al \in aligns : AllocCall(size, al)

\* ArenaAllocChars(count) = ArenaAllocAligned(count, 1)
AllocCharsStep(counts, bound) ==
  /\ Live
  /\ Len(log) < bound
  /\ \E count \in counts : AllocCall(count, 1)

\* ArenaAlloc(size) = ArenaAllocAligned(size, DEFAULT_ALIGNMENT)
AllocStep(sizes, bound) ==
  /\ Live
  /\ Len(log) < bound
  /\ \E size \in sizes : AllocCall(size, DEFAULT_ALIGNMENT)

ResetStep ==
  /\ Live
  /\ resets < MaxResets
  /\ arena' = ArenaReset(arena)
  /\ resets' = resets + 1
  /\ lastOp' = "reset"
  /\ ret' = NoRegion
  /\ UNCHANGED <<heap, frees, arenaFrees, log, writes>>
  /\ UNCHANGED vecVars
  /\ UNCHANGED strVars

\* the caller stores data in the region the last allocation returned
WriteStep ==
  /\ Live
  /\ ret.chunk # NULL
  /\ lastOp = "alloc"
  /\ writes < MaxWrites
  /\ heap' = [heap EXCEPT ![ret.chunk].buffer = Fill1(@, ret.pos, ret.size)]
  /\ writes' = writes + 1
  /\ lastOp' = "write"
  /\ UNCHANGED <<arena, frees, arenaFrees, ret, log, resets>>
  /\ UNCHANGED vecVars
  /\ UNCHANGED strVars

\* ArenaFree: free every chunk the loop visits, then the control block
FreeStep ==
  /\ Live
  /\ LET visited == FreeWalk(heap, arena.root)
     IN frees' = [i \in DOMAIN frees |-> frees[i] + Occurrences(visited, i)]
  /\ arenaFrees' = arenaFrees + 1
  /\ lastOp' = "free"
  /\ ret' = NoRegion
  /\ UNCHANGED <<heap, arena, log, resets, writes>>
  /\ UNCHANGED vecVars
  /\ UNCHANGED strVars

InitArena == ArenaInitWith(ChunkSizes) /\ VecInit /\ StrInit

NextArena ==
  \/ AllocAlignedStep(Sizes, Aligns, MaxAllocs)
  \/ AllocCharsStep(Sizes, MaxAllocs)
  \/ AllocStep(AllocSizes, MaxAllocs)
  \/ ResetStep
  \/ WriteStep
  \/ FreeStep

SpecArena == InitArena /\ [][NextArena]_vars

\* the scenario of an arena of chunk size 64 serving ArenaAllocChars calls
InitChars == ArenaInitWith(CharChunkSizes) /\ VecInit /\ StrInit

NextChars ==
  \/ AllocCharsStep(CharCounts, MaxCharAllocs)
  \/ ResetStep
  \/ WriteStep
  \/ FreeStep

SpecChars == InitChars /\ [][NextChars]_vars

\* the vector on its own, from the zero-initialized vector
InitVec == ArenaInitWith(ChunkSizes) /\ VecInit /\ StrInit

NextVec ==
  \/ VecPushStep
  \/ VecPopStep
  \/ VecShiftStep
  \/ VecUnshiftStep
  \/ VecInsertStep
  \/ VecAtStep
  \/ VecFreeStep

SpecVec == InitVec /\ [][NextVec]_vars

(***************************************************************************)
(* The string functions' state machine.  The program builds two Strings    *)
(* from text, sa and then sb, and then applies string functions to the     *)
(* Strings it holds.                                                       *)
(***************************************************************************)
\* every text over an alphabet, up to a length
Texts(alphabet, n) == UNION {[1..k -> alphabet] : k \in 0..n}

\* the String a call is handed
Operand(name) ==
  CASE name = "a" -> sa
    [] name = "b" -> sb
    [] name = "out" -> sout
    [] OTHER -> StrNull

Call(op, x, y, start, end) ==
  [op |-> op, x |-> x, y |-> y, start |-> start, end |-> end]

\* the arena a string function leaves behind
StrArena(r) ==
  /\ arena' = r.arena
  /\ heap' = r.heap
  /\ frees' = [i \in DOMAIN r.heap |-> IF i \in DOMAIN frees THEN frees[i] ELSE 0]
  /\ UNCHANGED <<arenaFrees, ret, lastOp, log, resets, writes>>
  /\ UNCHANGED vecVars

\* sa = StrNew(arena, text), then sb = StrNew(arena, text)
StrInput(r, call, str) ==
  /\ StrArena(r)
  /\ sa' = IF sins = 0 THEN r.str ELSE sa
  /\ sb' = IF sins = 1 THEN r.str ELSE sb
  /\ sout' = r.str
  /\ smade' = r.made
  /\ sstatus' = r.status
  /\ scall' = call
  /\ sins' = sins + 1
  /\ stext' = str
  /\ UNCHANGED <<stoks, sops, smax>>

StrNewStep(first, second) ==
  /\ sstatus = "ok"
  /\ sins < 2
  /\ \E t \in (IF sins = 0 THEN first ELSE second) :
       StrInput(StrNew(arena, heap, Text(t), smax),
                Call("new", "null", "null", 0, 0), Text(t))

StrNewSizeStep(first, second) ==
  /\ sstatus = "ok"
  /\ sins < 2
  /\ \E t \in (IF sins = 0 THEN first ELSE second) :
       StrInput(StrNewSize(arena, heap, Text(t), Len(t)),
                Call("newsize", "null", "null", 0, 0), Text(t))

\* sout = f(arena, ...) for a function f that builds one String
StrResult(r, call) ==
  /\ StrArena(r)
  /\ sout' = r.str
  /\ smade' = r.made
  /\ sstatus' = r.status
  /\ scall' = call
  /\ sops' = sops + 1
  /\ UNCHANGED <<sa, sb, stoks, sins, smax, stext>>

StrConcatStep ==
  /\ sstatus = "ok"
  /\ sins = 2
  /\ sops < MaxConcats
  /\ \E x, y \in {"a", "b", "out", "null"} :
       StrResult(StrConcat(arena, heap, Operand(x), Operand(y)),
                 Call("concat", x, y, 0, 0))

InitConcat == ArenaInitWith(StrChunkSizes) /\ VecInit /\ StrInit

NextConcat ==
  \/ StrNewStep(Texts(LetterA, MaxConcatLen), Texts(LetterB, MaxConcatLen))
  \/ StrNewSizeStep(Texts(LetterA, MaxConcatLen), Texts(LetterB, MaxConcatLen))
  \/ StrConcatStep

SpecConcat == InitConcat /\ [][NextConcat]_vars

\* sout = StrSlice(arena, &sa, start, end) with int arguments
StrSliceStep ==
  /\ sstatus = "ok"
  /\ sins = 2
  /\ sops < 1
  /\ \E start \in -1..sa.length + 1, end \in -(sa.length + 1)..sa.length + 1 :
       StrResult(StrSlice(arena, heap, sa, ToSizeT(start), ToSizeT(end)),
                 Call("slice", "a", "null", start, end))

SliceTexts == Texts(Letters, MaxSliceLen) \cup {HelloWorld}

InitSlice == ArenaInitWith(StrChunkSizes) /\ VecInit /\ StrInit

NextSlice ==
  \/ StrNewStep(SliceTexts, {<<>>})
  \/ StrNewSizeStep(SliceTexts, {<<>>})
  \/ StrSliceStep

SpecSlice == InitSlice /\ [][NextSlice]_vars

\* stoks = f(arena, ...) for a function f that returns a StringVector
StrVectorResult(r, call) ==
  /\ StrArena(r)
  /\ stoks' = r.toks
  /\ smade' = r.made
  /\ sstatus' = r.status
  /\ scall' = call
  /\ sops' = sops + 1
  /\ UNCHANGED <<sa, sb, sout, sins, smax, stext>>

\* stoks = StrSplit(arena, &sa, &sb)
StrSplitStep ==
  /\ sstatus = "ok"
  /\ sins = 2
  /\ sops < 1
  /\ StrVectorResult(StrSplit(arena, heap, sa, sb), Call("split", "a", "b", 0, 0))

SplitTexts == Texts(LetterComma, MaxSplitLen) \cup {ABEmptyC}

\* "", ",", ",," and "a,"
Delimiters == Texts(Comma, 2) \cup {<<97, 44>>}

InitSplit == ArenaInitWith(StrChunkSizes) /\ VecInit /\ StrInit

NextSplit ==
  \/ StrNewStep(SplitTexts, Delimiters)
  \/ StrNewSizeStep(SplitTexts, Delimiters)
  \/ StrSplitStep

SpecSplit == InitSplit /\ [][NextSplit]_vars

\* StrTrim(&sa)
StrTrimStep ==
  /\ sstatus = "ok"
  /\ sins = 2
  /\ sops < MaxTrims
  /\ \E order \in CopyOrders :
       LET r == StrTrim(heap, sa, order)
       IN /\ StrArena([arena |-> arena, heap |-> r.heap])
          /\ sa' = r.str
          /\ sstatus' = r.status
          /\ smade' = <<>>
          /\ scall' = Call("trim", "a", "null", 0, 0)
          /\ sops' = sops + 1
          /\ UNCHANGED <<sb, sout, stoks, sins, smax, stext>>

TrimTexts == Texts(LetterSpace, MaxTrimLen)

InitTrim == ArenaInitWith(StrChunkSizes) /\ VecInit /\ StrInit

NextTrim ==
  \/ StrNewStep(TrimTexts, {<<>>})
  \/ StrNewSizeStep(TrimTexts, {<<>>})
  \/ StrTrimStep

SpecTrim == InitTrim /\ [][NextTrim]_vars

\* stoks = StrSplitNewLine(arena, &sa)
StrSplitNewLineStep ==
  /\ sstatus = "ok"
  /\ sins = 2
  /\ sops < 1
  /\ StrVectorResult(StrSplitNewLine(arena, heap, sa), Call("lines", "a", "null", 0, 0))

LinesTexts == Texts(LetterBreaks, MaxLinesLen)

InitLines == ArenaInitWith(StrChunkSizes) /\ VecInit /\ StrInit

NextLines ==
  \/ StrNewStep(LinesTexts, {<<>>})
  \/ StrNewSizeStep(LinesTexts, {<<>>})
  \/ StrSplitNewLineStep

SpecLines == InitLines /\ [][NextLines]_vars

\* sa = StrNew(arena, NULL), then sb = StrNew(arena, NULL)
StrNewNullStep ==
  /\ sstatus = "ok"
  /\ sins < 2
  /\ StrInput(StrNew(arena, heap, At(NullPtr), smax),
              Call("new", "null", "null", 0, 0), At(NullPtr))

SetMaxStrSizeStep ==
  /\ sstatus = "ok"
  /\ sins < 2
  /\ \E size \in 0..MaxLimit :
       /\ smax' = SetMaxStrSize(size)
       /\ scall' = Call("setmax", "null", "null", 0, 0)
       /\ UNCHANGED <<sa, sb, sout, stoks, sstatus, smade, sins, sops, stext>>
       /\ UNCHANGED arenaVars
       /\ UNCHANGED vecVars

NewTexts == Texts(Letters, MaxNewLen)

InitNew == ArenaInitWith(StrChunkSizes) /\ VecInit /\ StrInit

NextNew ==
  \/ StrNewStep(NewTexts, NewTexts)
  \/ StrNewNullStep
  \/ SetMaxStrSizeStep

SpecNew == InitNew /\ [][NextNew]_vars

InitAlign == ArenaInitWith(AlignChunkSizes) /\ VecInit /\ StrInit

NextAlign ==
  \/ AllocAlignedStep(AlignSizes, AlignAligns, MaxAllocs)
  \/ ResetStep

SpecAlign == InitAlign /\ [][NextAlign]_vars

(***************************************************************************)
(* Notions the claims about the arena are stated with.                     *)
(***************************************************************************)
\* the allocation calls of cycle k (k resets before them), in order
Cycle(l, k) == SelectSeq(l, LAMBDA e : e.cycle = k)

\* what was asked, and what was returned, by a logged call
Request(e) == <<e.size, e.al>>
Address(e) == <<e.chunk, e.pos>>

\* the calls of cycle 1 repeat, one by one, the first calls of cycle 0
Repeats(l) ==
  LET c0 == Cycle(l, 0)
      c1 == Cycle(l, 1)
  IN /\ Len(c1) <= Len(c0)
     /\ \A i \in 1..Len(c1) : Request(c1[i]) = Request(c0[i])

\* the smallest multiple of al that is >= x
RoundUp(x, al) == ((x + al - 1) \div al) * al

\* the cumulative aligned size of a sequence of requests
RECURSIVE CumAligned(_)
CumAligned(l) ==
  IF l = <<>> THEN 0
  ELSE LET e == l[Len(l)]
       IN RoundUp(CumAligned(SubSeq(l, 1, Len(l) - 1)), e.al) + e.size

\* the chunks linked after chunk c
Later(h, c) == {FreeWalk(h, h[c].next)[i] : i \in 1..Len(FreeWalk(h, h[c].next))}

\* the last logged call
LastCall(l) == l[Len(l)]

(***************************************************************************)
(* C1 (as claimed): after a first cycle, ArenaReset followed by the same   *)
(* sequence of allocations creates no chunk; whenever a request does not   *)
(* fit the current chunk and a chunk later in the chain has a capacity     *)
(* that can hold the requested size, that chunk becomes current and the    *)
(* number of chunks stays unchanged.                                       *)
(***************************************************************************)
C1_ReuseStep ==
  lastOp' = "alloc" =>
    LET e == LastCall(log')
        fitting == {c \in Later(heap, arena.current) : heap[c].cap >= e.size}
    IN /\ (resets = 1 /\ Repeats(log')) => Len(heap') = Len(heap)
       /\ (Exceeds(AlignForward(arena.offset, e.al) + e.size, heap[arena.current].cap)
             /\ fitting # {})
            => (Len(heap') = Len(heap) /\ arena'.current \in fitting)

C1_ResetReusesChunks == [][C1_ReuseStep]_vars

(***************************************************************************)
(* C2 (as claimed): a sequence of requests run on a fresh arena, then      *)
(* ArenaReset, then the same sequence again: every request of the second   *)
(* run returns the address (chunk and offset) it returned in the first.    *)
(***************************************************************************)
C2_ResetSameAddresses ==
  Repeats(log) =>
    \A i \in 1..Len(Cycle(log, 1)) :
      Address(Cycle(log, 1)[i]) = Address(Cycle(log, 0)[i])

(***************************************************************************)
(* C3: the region an allocation returns starts at a position of the chunk  *)
(* buffer that is a multiple of align, lies inside the chunk, and its size *)
(* bytes are all zero, also in a chunk that held data before a Reset.      *)
(***************************************************************************)
C3_AlignedAndZeroed ==
  lastOp = "alloc" =>
    /\ ret.pos % LastCall(log).al = 0
    /\ ret.pos + ret.size <= heap[ret.chunk].cap
    /\ \A i \in ret.pos + 1 .. ret.pos + ret.size : heap[ret.chunk].buffer[i] = 0

\* an aligned region handed out, after a Reset, next to bytes that still
\* hold the data of the cycle before
C3_Witness ==
  /\ lastOp = "alloc"
  /\ resets = 1
  /\ LastCall(log).al = 2
  /\ ret.pos = 2
  /\ heap[ret.chunk].buffer[1] = 0
  /\ heap[ret.chunk].buffer[2] = 1
  /\ heap[ret.chunk].buffer[3] = 0

(***************************************************************************)
(* C4 (as claimed): on a fresh arena, allocations whose cumulative aligned *)
(* size stays within the first chunk create no chunk; the first request    *)
(* that exceeds it creates exactly one chunk, of capacity                  *)
(* max(size, chunkSize), which becomes current.                            *)
(***************************************************************************)
C4_Step ==
  (lastOp' = "alloc" /\ resets = 0 /\ Len(heap) = 1
     /\ CumAligned(log) <= heap[arena.root].cap) =>
    LET e == LastCall(log')
    IN IF CumAligned(log') <= heap[arena.root].cap
         THEN Len(heap') = 1 /\ arena'.current = arena.root
         ELSE /\ Len(heap') = 2
              /\ heap'[2].cap = (IF e.size > arena.chunkSize THEN e.size
                                 ELSE arena.chunkSize)
              /\ arena'.current = 2

C4_FirstChunkThenOneNew == [][C4_Step]_vars

(***************************************************************************)
(* C5 (as claimed): chunk size 64: three ArenaAllocChars(16) calls are     *)
(* served from the first chunk and a fourth forces a second chunk, in      *)
(* which its region lies.                                                  *)
(***************************************************************************)
\* the state right after the n-th call on the fresh arena, all n calls
\* having been ArenaAllocChars(16)
Chars16(n) ==
  /\ lastOp = "alloc"
  /\ Len(log) = n
  /\ \A i \in 1..n : log[i].size = 16 /\ log[i].al = 1 /\ log[i].cycle = 0

C5_FourthForcesChunk ==
  Chars16(4) =>
    /\ \A i \in 1..3 : log[i].chunk = arena.root
    /\ Len(heap) = 2
    /\ log[4].chunk = 2

(***************************************************************************)
(* C5 (amended): chunk size 64: four ArenaAllocChars(16) calls are served  *)
(* from the first chunk, at offsets 0, 16, 32 and 48, and the chain still  *)
(* has one chunk; a fifth forces a second chunk, in which its region lies. *)
(***************************************************************************)
C5_FifthForcesChunk ==
  /\ \A n \in 1..4 :
       Chars16(n) =>
          /\ Len(heap) = 1
          /\ log[n].chunk = arena.root
          /\ log[n].pos = 16 * (n - 1)
  /\ Chars16(5) =>
       /\ Len(heap) = 2
       /\ log[5].chunk = 2
       /\ log[5].pos = 0
       /\ arena.current = 2

C5_Witness == Chars16(5) /\ Len(heap) = 2

(***************************************************************************)
(* C6: root never changes, every chunk ever created is reached from root   *)
(* exactly once along the next links, and ArenaFree frees every chunk      *)
(* exactly once and then the control block.                                *)
(***************************************************************************)
ChainComplete(h, root) ==
  \A c \in 1..Len(h) : Occurrences(FreeWalk(h, root), c) = 1

C6_Step ==
  /\ arena'.root = arena.root
  /\ ChainComplete(heap', arena'.root)
  /\ lastOp' = "free" =>
       /\ \A c \in 1..Len(heap') : frees'[c] = 1
       /\ arenaFrees' = 1

C6_FreeReleasesAll == [][C6_Step]_vars

\* freed after a reuse walk that skipped the second chunk and made a third
C6_Witness ==
  /\ lastOp = "free"
  /\ arenaFrees = 1
  /\ resets = 1
  /\ Len(heap) = 3
  /\ \A c \in 1..3 : frees[c] = 1

(***************************************************************************)
(* C7: ArenaReset sets current to root and offset to 0 and changes nothing *)
(* else: the chunks, their links, capacities and bytes, root and chunkSize *)
(* are as before.                                                          *)
(***************************************************************************)
C7_Step ==
  lastOp' = "reset" =>
    /\ arena'.current = arena.root
    /\ arena'.offset = 0
    /\ arena'.root = arena.root
    /\ arena'.chunkSize = arena.chunkSize
    /\ heap' = heap
    /\ frees' = frees
    /\ arenaFrees' = arenaFrees

C7_ResetFrame == [][C7_Step]_vars

\* a Reset made while current was a later chunk and offset was not 0
C7_Witness ==
  /\ lastOp = "reset"
  /\ Len(heap) >= 2
  /\ arena.current = arena.root
  /\ arena.offset = 0

(***************************************************************************)
(* C8 (as claimed): VecFree releases the backing buffer and leaves the     *)
(* vector with length == 0, capacity == 0 and data == NULL.                *)
(***************************************************************************)
C8_FreeZeroesVector ==
  (vcall.op = "free" /\ vstatus = "ok") =>
    /\ ~vlive
    /\ vec.data = NULL
    /\ vec.length = 0
    /\ vec.capacity = 0

(***************************************************************************)
(* C9: in every state reached from the zero-initialized vector by the      *)
(* vector macros, 0 <= length <= capacity, and capacity == 0 implies that  *)
(* data is NULL.                                                           *)
(***************************************************************************)
C9_LengthWithinCapacity ==
  /\ 0 <= vec.length
  /\ vec.length <= vec.capacity
  /\ vec.capacity = 0 => vec.data = NULL

\* a vector filled to its capacity by VecInsert
C9_Witness ==
  /\ vcall.op = "insert"
  /\ vstatus = "ok"
  /\ vec.length = 2
  /\ vec.capacity = 2
  /\ vec.data # NULL

(***************************************************************************)
(* C10: VecPush calls Realloc if and only if length == capacity before the *)
(* call; the new capacity is then 128 if the old one was 0 and twice the   *)
(* old one otherwise; the reference it returns is the slot at index        *)
(* length - 1, which holds the pushed value; 130 pushes on the zero        *)
(* vector end with capacity == 256 and length == 130.                      *)
(***************************************************************************)
C10_Step ==
  (vcall'.op = "push" /\ vstatus' # "abort") =>
    /\ vgrew' <=> (vec.length = vec.capacity)
    /\ vgrew' => vec'.capacity = (IF vec.capacity = 0 THEN 128 ELSE 2 * vec.capacity)
    /\ ~vgrew' => vec'.capacity = vec.capacity
    /\ vstatus' = "ok" =>
         /\ vec'.length = vec.length + 1
         /\ vret'.kind = "slot"
         /\ vret'.idx = vec'.length - 1
         /\ vbuf'[vret'.idx + 1] = vcall'.value
    /\ pushRun' = 130 => (vec'.capacity = 256 /\ vec'.length = 130)

C10_PushGrowth == [][C10_Step]_vars

\* the state after the 130th push of a run of pushes
C10_Witness ==
  /\ pushRun = 130
  /\ vcall.op = "push"
  /\ vec.length = 130
  /\ vec.capacity = 256

(***************************************************************************)
(* Notions the claims about the vector's elements are stated with.         *)
(***************************************************************************)
\* the elements data[0..length) of a vector whose block is live
Elements(v, b) == SubSeq(b, 1, v.length)

InsertAt(q, i, x) == SubSeq(q, 1, i) \o <<x>> \o SubSeq(q, i + 1, Len(q))

\* C11: every successful VecPush, VecPop, VecShift, VecUnshift or VecInsert on
\* a vector with a live block changes data[0..length) as append, remove-last,
\* remove-first, prepend and insert-at-index change a sequence; what VecPop
\* and VecShift yield is the removed element and they keep the capacity; a
\* VecPop right after VecPush(v) yields v and takes the length back by one.
C11_Step ==
  (vstatus = "ok" /\ vstatus' = "ok" /\ (vec.data # NULL \/ vec.length = 0))
    => LET q == Elements(vec, vbuf)
           q2 == Elements(vec', vbuf')
           op == vcall'.op
       IN /\ op = "push" => q2 = Append(q, vcall'.value)
          /\ op = "pop" => /\ q2 = SubSeq(q, 1, Len(q) - 1)
                           /\ vret'.val = q[Len(q)]
                           /\ vec'.capacity = vec.capacity
          /\ op = "shift" => /\ q2 = Tail(q)
                             /\ vret'.val = q[1]
                             /\ vec'.capacity = vec.capacity
          /\ op = "unshift" => q2 = <<vcall'.value>> \o q
          /\ op = "insert" => q2 = InsertAt(q, vcall'.index, vcall'.value)
          /\ (op = "pop" /\ vcall.op = "push")
               => vret'.val = vcall.value /\ vec'.length = vec.length - 1

C11_OrderPreserving == [][C11_Step]_vars

\* C12: VecPop or VecShift on a vector of length 0, VecInsert with an index
\* above the length and VecAt with an index outside [0, length) abort: the
\* process stops with the vector and its elements as they were and nothing
\* returned.
C12_Violates ==
  \/ vcall'.op \in {"pop", "shift"} /\ vec.length = 0
  \/ vcall'.op = "insert" /\ vcall'.index > vec.length
  \/ vcall'.op = "at" /\ (vcall'.index < 0 \/ vcall'.index >= vec.length)

C12_Step ==
  (vstatus = "ok" /\ C12_Violates)
    => /\ vstatus' = "abort"
       /\ vec' = vec /\ vbuf' = vbuf /\ vlive' = vlive
       /\ vret' = NoRet

C12_ViolationsAbort == [][C12_Step]_vars

C12_Witness ==
  /\ vstatus = "abort"
  /\ vcall.op = "at"
  /\ vcall.index = -1
  /\ vec.length = 2

(***************************************************************************)
(* Notions the claims about strings are stated with.                       *)
(***************************************************************************)
\* the bytes data[0..length) of a String
Bytes(h, str) == [i \in 1..str.length |-> SrcByte(h, At(str.data), i - 1)]

\* C17: every String a string function built sits in an allocation of
\* length + 1 bytes, and the function stored to no byte of data beyond that
\* allocation (the terminator at data[length] included).
C17_TerminatorInside ==
  \A i \in DOMAIN smade :
    /\ smade[i].size = smade[i].str.length + 1
    /\ smade[i].stores <= smade[i].size

\* C18: StrConcat of two Strings that both have data returns a String whose
\* length is the sum of theirs and whose bytes are the first operand's
\* followed by the second's; the operands' length, data and bytes are as
\* they were.
C18_Step ==
  LET x == Operand(scall'.x)
      y == Operand(scall'.y)
  IN (scall'.op = "concat" /\ sops' = sops + 1 /\ ~StrIsNull(x) /\ ~StrIsNull(y))
       => /\ sout'.length = x.length + y.length
          /\ Bytes(heap', sout') = Bytes(heap, x) \o Bytes(heap, y)
          /\ Bytes(heap', x) = Bytes(heap, x)
          /\ Bytes(heap', y) = Bytes(heap, y)
          /\ sa' = sa /\ sb' = sb

C18_ConcatValued == [][C18_Step]_vars

C18_Witness ==
  /\ scall.op = "concat" /\ scall.x = "a" /\ scall.y = "b"
  /\ sa.length = 2 /\ sb.length = 1
  /\ sout.length = 3
  /\ Bytes(heap, sout) = <<97, 97, 98>>

\* the bytes [data, data + length) of two Strings have an address in common
Overlap(s1, s2) ==
  /\ s1.data.chunk = s2.data.chunk
  /\ s1.data.pos < s2.data.pos + s2.length
  /\ s2.data.pos < s1.data.pos + s1.length

\* C19: StrConcat with exactly one null operand returns a String with the
\* other operand's length and bytes, in a buffer of its own: its data
\* pointer is not the operand's and no byte of it is a byte of the operand.
C19_Step ==
  LET x == Operand(scall'.x)
      y == Operand(scall'.y)
      other == IF StrIsNull(x) THEN y ELSE x
  IN (scall'.op = "concat" /\ sops' = sops + 1 /\ StrIsNull(x) # StrIsNull(y))
       => /\ sout'.length = other.length
          /\ Bytes(heap', sout') = Bytes(heap, other)
          /\ sout'.data # other.data
          /\ ~Overlap(sout', other)

C19_ConcatCopies == [][C19_Step]_vars

\* the bytes [from, to) of a String (0-based, to excluded)
Range(h, str, from, to) ==
  [i \in 1..(to - from) |-> SrcByte(h, At(str.data), from + i - 1)]

\* C15: StrSlice of a String with data, with -length <= end < 0 and
\* 0 <= start <= length + end, returns the bytes [start, length + end).
C15_Step ==
  (/\ scall'.op = "slice" /\ sops' = sops + 1 /\ ~StrIsNull(sa)
   /\ -sa.length <= scall'.end /\ scall'.end < 0
   /\ 0 <= scall'.start /\ scall'.start <= sa.length + scall'.end)
    => /\ sstatus' = "ok"
       /\ sout'.length = sa.length + scall'.end - scall'.start
       /\ Bytes(heap', sout') = Range(heap, sa, scall'.start, sa.length + scall'.end)

C15_NegativeEnd == [][C15_Step]_vars

\* C16: StrSlice of a String with data, with 0 <= start <= end <= length,
\* returns a String of length end - start in an allocation of its own, whose
\* bytes are the bytes [start, end) of the operand followed by a zero byte;
\* with non-negative start and end where start > length, end < start or
\* end > length the process aborts, nothing is returned and the arena is as
\* it was.
C16_Step ==
  LET start == scall'.start
      end == scall'.end
  IN (scall'.op = "slice" /\ sops' = sops + 1 /\ ~StrIsNull(sa)
      /\ start >= 0 /\ end >= 0)
       => IF start <= end /\ end <= sa.length
            THEN /\ sstatus' = "ok"
                 /\ sout'.length = end - start
                 /\ Bytes(heap', sout') = Range(heap, sa, start, end)
                 /\ SrcByte(heap', At(sout'.data), sout'.length) = 0
                 /\ smade' = <<[str |-> sout', size |-> end - start + 1,
                                stores |-> end - start + 1]>>
                 /\ sout'.data # sa.data /\ ~Overlap(sout', sa)
                 /\ Bytes(heap', sa) = Bytes(heap, sa)
            ELSE /\ sstatus' = "abort"
                 /\ sout' = StrNull /\ smade' = <<>>
                 /\ heap' = heap /\ arena' = arena

C16_SliceOrAbort == [][C16_Step]_vars

C16_Witness ==
  /\ scall.op = "slice" /\ scall.start = 1 /\ scall.end = 3
  /\ sa.length = 3
  /\ sstatus = "ok"
  /\ sout.length = 2
  /\ Bytes(heap, sout) = <<98, 97>>

\* the tokens of the StringVector, as byte sequences
Tokens(h, toks) == [i \in 1..toks.vec.length |-> Bytes(h, toks.buf[i])]

\* the tokens joined with d between consecutive ones
RECURSIVE Join(_, _)
Join(tokens, d) ==
  IF tokens = <<>> THEN <<>>
  ELSE IF Len(tokens) = 1 THEN tokens[1]
  ELSE tokens[1] \o d \o Join(Tail(tokens), d)

\* C13: after StrSplit(s, d) with a non-empty d, the tokens joined with d
\* are the bytes of s.
C13_JoinRestores ==
  (scall.op = "split" /\ sstatus = "ok" /\ sb.length > 0)
    => Join(Tokens(heap, stoks), Bytes(heap, sb)) = Bytes(heap, sa)

\* the positions of s, from 1, where d occurs
OccursAt(s, d) ==
  {k \in 1..Len(s) - Len(d) + 1 : SubSeq(s, k, k + Len(d) - 1) = d}

\* the substrings of s that end at each successive leftmost occurrence of d
\* in the suffix not yet scanned, then whatever remains after the last one
RECURSIVE TokensOf(_, _)
TokensOf(s, d) ==
  IF OccursAt(s, d) = {} THEN <<s>>
  ELSE LET k == CHOOSE k \in OccursAt(s, d) : \A o \in OccursAt(s, d) : k <= o
       IN <<SubSeq(s, 1, k - 1)>> \o TokensOf(SubSeq(s, k + Len(d), Len(s)), d)

\* C14: after StrSplit(s, d) with a non-empty d, the tokens are, in order,
\* the substrings of s ending at each successive leftmost occurrence of d,
\* followed by what remains after the last occurrence (all of s when d does
\* not occur in it).
C14_TokensAsDescribed ==
  (scall.op = "split" /\ sstatus = "ok" /\ sb.length > 0)
    => Tokens(heap, stoks) = TokensOf(Bytes(heap, sa), Bytes(heap, sb))

\* C20: a StrTrim of a String that the previous call already trimmed leaves
\* its length and its bytes as they were.
C20_Step ==
  (scall.op = "trim" /\ scall'.op = "trim" /\ sops' = sops + 1)
    => /\ sa'.length = sa.length
       /\ Bytes(heap', sa') = Bytes(heap, sa)

C20_TrimIdempotent == [][C20_Step]_vars

\* the positions, from 1, of the bytes of a text that are not whitespace
Inked(text) == {i \in 1..Len(text) : ~(text[i] \in {32, 9, 13, 10})}

\* C21: StrTrim leaves the String at the same data pointer holding exactly
\* the input bytes from the first to the last byte that is not a space, tab,
\* carriage return or line feed, with length set to their number and a zero
\* byte at data[length]; a String of whitespace only ends with length 0 and
\* a zero byte at data[0].
C21_Step ==
  LET text == Bytes(heap, sa)
      first == CHOOSE i \in Inked(text) : \A o \in Inked(text) : i <= o
      last == CHOOSE i \in Inked(text) : \A o \in Inked(text) : i >= o
  IN (scall'.op = "trim" /\ sops' = sops + 1 /\ ~StrIsNull(sa))
       => /\ sa'.data = sa.data
          /\ SrcByte(heap', At(sa'.data), sa'.length) = 0
          /\ IF Inked(text) = {}
               THEN sa'.length = 0
               ELSE /\ sa'.length = last - first + 1
                    /\ Bytes(heap', sa') = SubSeq(text, first, last)

C21_TrimKeepsRange == [][C21_Step]_vars

\* a line without the carriage return that ends it, if one does
WithoutReturn(line) ==
  IF line # <<>> /\ line[Len(line)] = 13 THEN SubSeq(line, 1, Len(line) - 1)
  ELSE line

\* the lines of a text: each segment that a line feed ends, without the line
\* feed and without a carriage return just before it, then a last segment
\* that no line feed ends, if it is not empty, as it is
RECURSIVE LinesOf(_)
LinesOf(text) ==
  LET feeds == {i \in 1..Len(text) : text[i] = 10}
      k == CHOOSE i \in feeds : \A o \in feeds : i <= o
  IN IF text = <<>> THEN <<>>
     ELSE IF feeds = {} THEN <<text>>
     ELSE <<WithoutReturn(SubSeq(text, 1, k - 1))>>
            \o LinesOf(SubSeq(text, k + 1, Len(text)))

\* C22: after StrSplitNewLine(s) on a String with data the tokens are, in
\* order, the line-feed-terminated lines of s without their line feed and
\* without a carriage return just before it, then the final segment with no
\* line feed after it when it is not empty; nothing follows a trailing line
\* feed.
C22_LinesAsDescribed ==
  (scall.op = "lines" /\ sstatus = "ok")
    => Tokens(heap, stoks) = LinesOf(Bytes(heap, sa))

C22_Witness ==
  /\ scall.op = "lines" /\ sstatus = "ok"
  /\ Bytes(heap, sa) = <<97, 13, 10, 13>>
  /\ Tokens(heap, stoks) = << <<97>>, <<13>> >>

\* strlen of a char * argument (0 for a null pointer)
CLength(str) == IF IsNullText(str) THEN 0 ELSE Len(str.bytes) - 1

Smaller(x, y) == IF x <= y THEN x ELSE y

\* what StrNew returns for an argument it takes len > 0 bytes of
PrefixCopied(len) ==
  /\ sout'.length = len
  /\ ~StrIsNull(sout')
  /\ Bytes(heap', sout') = SubSeq(stext'.bytes, 1, len)
  /\ SrcByte(heap', At(sout'.data), len) = 0

NoValueReturned ==
  /\ sout' = StrNull
  /\ arena' = arena
  /\ heap' = heap

\* C23 as stated: StrNew of a null pointer or an empty C string returns
\* {0, NULL} and leaves the arena as it was; of any other argument it returns
\* a String of length min(strlen, maxStringSize) that holds that prefix of
\* the argument and a zero byte after it.
C23_StatedStep ==
  (scall'.op = "new" /\ sins' = sins + 1)
    => IF CLength(stext') = 0 THEN NoValueReturned
       ELSE PrefixCopied(Smaller(CLength(stext'), smax))

C23_AsStated == [][C23_StatedStep]_vars

\* C23, amended: StrNew of a null pointer or an empty C string, and of any
\* argument while maxStringSize is 0, returns {0, NULL} and leaves the arena
\* as it was; otherwise it returns a String of length
\* min(strlen, maxStringSize) that holds that prefix of the argument and a
\* zero byte after it.
C23_Step ==
  (scall'.op = "new" /\ sins' = sins + 1)
    => IF CLength(stext') = 0 \/ smax = 0 THEN NoValueReturned
       ELSE PrefixCopied(Smaller(CLength(stext'), smax))

C23_NewCopiesPrefix == [][C23_Step]_vars

C23_Witness ==
  /\ scall.op = "new"
  /\ smax = 2
  /\ stext = Text(<<97, 98, 97>>)
  /\ sout.length = 2
  /\ Bytes(heap, sout) = <<97, 98>>

\* C24: right after an allocation call the arena's offset lies between 0
\* and the capacity of the current chunk.
C24_OffsetWithinCap ==
  lastOp = "alloc"
    => 0 <= arena.offset /\ arena.offset <= heap[arena.current].cap

\* C25: an ArenaAllocAligned(size, al) call for which the offset rounded up
\* to al, plus size, is within the current chunk returns the region of the
\* current chunk that starts at the offset rounded up to al, and leaves the
\* offset at that start plus size.
C25_Step ==
  LET e == LastCall(log')
      start == RoundUp(arena.offset, e.al)
  IN (lastOp' = "alloc" /\ Len(log') = Len(log) + 1
      /\ start + e.size <= heap[arena.current].cap)
       => /\ ret'.chunk = arena.current
          /\ ret'.pos = start
          /\ arena'.offset = start + e.size

C25_FitRoundsUp == [][C25_Step]_vars

\* the bytes of two logged regions have an address in common
Intersect(e1, e2) ==
  /\ e1.chunk = e2.chunk
  /\ e1.pos < e2.pos + e2.size
  /\ e2.pos < e1.pos + e1.size

\* C26: the regions returned by the allocation calls made between a Create
\* or Reset and the next Reset are pairwise disjoint.
C26_RegionsDisjoint ==
  \A i, j \in DOMAIN log :
    (i < j /\ log[i].cycle = log[j].cycle) => ~Intersect(log[i], log[j])

====
